---- MODULE Spec2Model ----
(***************************************************************************)
(* Ledger model of the finance platform's REST back end: the Account and   *)
(* Transaction collections, the transaction CRUD routes, the account       *)
(* routes and the bank-sync paths.  Every action is one whole request      *)
(* handler (or one whole sync run) executed without interleaving.          *)
(* Amounts are integers (whole currency units); JavaScript floating-point  *)
(* rounding is outside the model.                                          *)
(***************************************************************************)
EXTENDS Integers, Sequences, FiniteSets, TLC

\* ------------------------------------------------------------------ bounds
MaxOps == 4
MaxAcc == 1
MaxTx == 2
MaxFeed == 2
MaxReq == 3
MaxTimers == 2
MaxRuns == 3

\* ------------------------------------------------------- program constants
UrgentThreshold == 1000

\* ------------------------------------------------------------ input domains
Users == {"u1", "u2"}
AccIds == 1..MaxAcc
TxIds == 1..MaxTx
Dates == {1, 2}
Amounts == {-1001, 1000}
Types == {"income", "expense", "transfer"}
InitBalances == {100}
PlaidAccIds == {"pa1"}
PlaidTxIds == {"p1", "p2"}
PlaidBalances == {0, 100}
NoPlaid == "null"
NoUser == "none"

VARIABLES
    accounts,   \* Account collection: _id -> document
    txs,        \* Transaction collection: _id -> document
    nextAcc,    \* next fresh Account _id (ids are never reused)
    nextTx,     \* next fresh Transaction _id
    last,       \* the handler that ran last: its request and its response
    served,     \* number of requests and timer runs handled so far
    opening,    \* history: the balance each account was created with
    latest,     \* history: per account, the transaction created last, while nothing
                \*          else has touched the account since (0 otherwise)
    without,    \* history: per account, the balance just before latest was created
    reqs,       \* requests in flight, handled one database call at a time: request
                \*          number -> the handler's position and local variables
    sync        \* the SyncService object: isRunning, syncInterval, the interval
                \*          timers installed, the syncAllAccounts runs in progress

vars == <<accounts, txs, nextAcc, nextTx, last, served, opening, latest, without, reqs, sync>>

\* ------------------------------------------------------------ pure helpers
Abs(x) == IF x < 0 THEN -x ELSE x

\* the sign convention without Math.abs: trusts the sign of the request
SignedAmountNoAbs(type, amount) == IF type = "expense" THEN -amount ELSE amount

\* type === 'expense' ? -Math.abs(amount) : Math.abs(amount)
SignedAmount(type, amount) == IF type = "expense" THEN -Abs(amount) ELSE Abs(amount)

\* a balance update that adds the request's amount as supplied, for every type
NewBalanceAsSupplied(balance, type, amount) == balance + amount

\* let newBalance = account.balance; += Math.abs(amount) for income,
\* -= Math.abs(amount) for expense
NewBalance(balance, type, amount) ==
    IF type = "income" THEN balance + Abs(amount)
    ELSE IF type = "expense" THEN balance - Abs(amount)
    ELSE balance

\* a revert that forgets to take the stored amount out of the snapshot
RevertedBalanceKeepsAmount(tx) == tx.balanceAfter

\* account.balance = transaction.balanceAfter - transaction.amount
RevertedBalance(tx) == tx.balanceAfter - tx.amount

\* the threshold test with >= in place of >
IsUrgentInclusive(amount) == Abs(amount) >= UrgentThreshold

\* Math.abs(amount) > 1000
IsUrgent(amount) == Abs(amount) > UrgentThreshold

PlaidType(amount) == IF amount > 0 THEN "expense" ELSE "income"

\* a sync balance that adds the aggregator's amount as reported (positive = money out)
SyncNewBalanceAsReported(currentBalance, type, amount) == currentBalance + amount

\* type === 'expense' ? currentBalance - Math.abs(amount) : currentBalance + Math.abs(amount)
SyncNewBalance(currentBalance, type, amount) ==
    IF type = "expense" THEN currentBalance - Abs(amount) ELSE currentBalance + Abs(amount)

Min(S) == CHOOSE x \in S : \A y \in S : x <= y

\* ------------------------------------------------------------ collections
NewAccountDoc(u, balance, plaidAccountId, linked) ==
    [userId |-> u, balance |-> balance, isActive |-> TRUE,
     plaidAccountId |-> plaidAccountId, isPlaidLinked |-> linked,
     plaidItemId |-> NoPlaid]

\* a document whose snapshot is the balance read before the amount was applied
NewTxDocStale(a, u, type, amount, date, newBalance, plaidId) ==
    [accountId |-> a, userId |-> u, amount |-> SignedAmount(type, amount),
     type |-> type, date |-> date,
     balanceAfter |-> newBalance - SignedAmount(type, amount),
     isUrgent |-> IsUrgent(amount), plaidTransactionId |-> plaidId]

\* new Transaction({...}) as built by POST /transactions and by both sync loops
NewTxDoc(a, u, type, amount, date, newBalance, plaidId) ==
    [accountId |-> a, userId |-> u, amount |-> SignedAmount(type, amount),
     type |-> type, date |-> date, balanceAfter |-> newBalance,
     isUrgent |-> IsUrgent(amount), plaidTransactionId |-> plaidId]

\* ------------------------------------------------- CategorizationService
\* A description is modelled by the set of rule keywords that occur in it
\* (desc.includes(keyword)); the rules are kept in the order of the object's
\* keys, each with some of its keywords.
CategoryRules ==
    <<[category |-> "groceries", keywords |-> {"walmart", "grocery"}],
      [category |-> "food", keywords |-> {"restaurant", "pizza"}],
      [category |-> "transportation", keywords |-> {"uber", "parking"}],
      [category |-> "shopping", keywords |-> {"amazon", "retail"}],
      [category |-> "entertainment", keywords |-> {"netflix", "movie"}],
      [category |-> "bills", keywords |-> {"electric", "rent"}],
      [category |-> "healthcare", keywords |-> {"pharmacy", "dental"}],
      [category |-> "utilities", keywords |-> {"comcast", "verizon"}],
      [category |-> "subscriptions", keywords |-> {"subscription", "monthly"}],
      [category |-> "salary", keywords |-> {"payroll", "salary"}],
      [category |-> "investment", keywords |-> {"dividend", "interest"}]>>

\* the enum of Transaction.category
CategoryEnum ==
    {"salary", "freelance", "investment", "gift", "refund", "other-income",
     "food", "transportation", "shopping", "entertainment", "bills", "healthcare",
     "education", "travel", "groceries", "rent", "utilities", "insurance",
     "subscriptions", "other-expense", "transfer"}

\* the rules whose keywords occur in the description, by position
MatchingRules(description) ==
    {i \in DOMAIN CategoryRules : CategoryRules[i].keywords \cap description # {}}

\* amount < 0 ? 'expense' : 'income'
CategorizedType(amount) == IF amount < 0 THEN "expense" ELSE "income"

\* categorizeTransaction(description, amount): the first rule that matches, or
\* the default for the type it derives from the amount's sign
CategorizeTransaction(description, amount) ==
    LET type == CategorizedType(amount)
        hits == MatchingRules(description)
    IN IF hits # {}
       THEN [category |-> CategoryRules[Min(hits)].category, type |-> type]
       ELSE [category |-> IF type = "expense" THEN "other-expense" ELSE "other-income",
             type |-> type]

\* new Transaction({...}) of the two sync loops: type and sign from the
\* aggregator's amount, category from categorizeTransaction(plaidTx.name, amount),
\* description plaidTx.name.  (The category and description of a record made by
\* POST /transactions come from the request body and are not tracked.)
ImportedTxDoc(a, u, item, newBalance) ==
    LET doc == NewTxDoc(a, u, PlaidType(item.amount), item.amount, item.date,
                        newBalance, item.transaction_id)
        categorization == CategorizeTransaction(item.name, item.amount)
    IN [f \in DOMAIN doc \cup {"category", "description"} |->
           IF f = "category" THEN categorization.category
           ELSE IF f = "description" THEN item.name
           ELSE doc[f]]

\* the account lookup without the isActive filter
FindAccountAnyState(A, a, u) == a \in DOMAIN A /\ A[a].userId = u

\* Account.findOne({_id, userId, isActive: true})
FindActiveAccount(A, a, u) == a \in DOMAIN A /\ A[a].userId = u /\ A[a].isActive

\* Account.findOne({_id, userId})
FindOwnedAccount(A, a, u) == a \in DOMAIN A /\ A[a].userId = u

\* the transaction lookup by _id alone, without the owner filter
FindTransactionAnyUser(T, t, u) == t \in DOMAIN T

\* Transaction.findOne({_id, userId})
FindTransaction(T, t, u) == t \in DOMAIN T /\ T[t].userId = u

\* a duplicate lookup that matches no stored document
ExistingTxNever(T, pid) == FALSE

\* Transaction.findOne({plaidTransactionId}) found a document
ExistingTx(T, pid) == \E t \in DOMAIN T : T[t].plaidTransactionId = pid

\* a removal that takes every record of the same account with it
WithoutTxOfAccount(T, t) ==
    [x \in {y \in DOMAIN T : T[y].accountId # T[t].accountId} |-> T[x]]

\* Transaction.findByIdAndDelete(id): the collection without that document
WithoutTx(T, t) == [x \in DOMAIN T \ {t} |-> T[x]]

\* a count that never finds a referencing transaction
TransactionCountNone(T, a) == 0

\* Transaction.countDocuments({accountId})
TransactionCount(T, a) == Cardinality({t \in DOMAIN T : T[t].accountId = a})

\* a lookup by plaidAccountId alone, whoever owns the account
LinkedAccountsAnyUser(A, u, pa) == {a \in DOMAIN A : A[a].plaidAccountId = pa}

\* Account.findOne({userId, plaidAccountId}): the matching documents
LinkedAccountsOf(A, u, pa) == {a \in DOMAIN A : A[a].userId = u /\ A[a].plaidAccountId = pa}

\* -------------------------------------------------- requests and responses
\* the fields of a response body that matter to a client handling errors:
\* the catch blocks answer {message, error}, every other response {message, ...}
BodyFields(status) == IF status = 500 THEN {"message", "error"} ELSE {"message"}

Outcome(op, status, message, u, target) ==
    [op |-> op, status |-> status, message |-> message, user |-> u,
     target |-> target, seen |-> {}, dupes |-> {}, synced |-> {},
     body |-> BodyFields(status)]

SyncOutcome(op, status, message, u, db) ==
    [op |-> op, status |-> status, message |-> message, user |-> u,
     target |-> 0, seen |-> db.seen, dupes |-> db.dupes, synced |-> db.synced,
     body |-> BodyFields(status)]

\* the persisted state as one value, threaded through the loops of a handler;
\* seen / dupes collect the external ids a sync run looked up / found stored,
\* synced the accounts whose lastSyncDate the run has set
DB ==
    [accounts |-> accounts, txs |-> txs, nextAcc |-> nextAcc, nextTx |-> nextTx,
     opening |-> opening, latest |-> latest, without |-> without,
     seen |-> {}, dupes |-> {}, synced |-> {}]

\* one more request (or timer run) handled as a whole, within the model's
\* budget; no request in flight moves meanwhile
Served == served < MaxOps /\ served' = served + 1 /\ reqs' = reqs /\ sync' = sync

Commit(db) ==
    /\ db.nextAcc <= MaxAcc + 1
    /\ db.nextTx <= MaxTx + 1
    /\ accounts' = db.accounts
    /\ txs' = db.txs
    /\ nextAcc' = db.nextAcc
    /\ nextTx' = db.nextTx
    /\ opening' = db.opening
    /\ latest' = db.latest
    /\ without' = db.without

Unchanged == UNCHANGED <<accounts, txs, nextAcc, nextTx, opening, latest, without>>

\* a request that has not arrived yet
ReqIds == 1..MaxReq

Idle ==
    [op |-> "idle", pc |-> "idle", user |-> NoUser, target |-> 0, account |-> 0,
     amount |-> 0, type |-> "none", date |-> 0, read |-> 0, newBalance |-> 0]

\* ------------------------------------------------------------------- Init
Init ==
    /\ accounts = <<>>
    /\ txs = <<>>
    /\ nextAcc = 1
    /\ nextTx = 1
    /\ last = Outcome("none", 0, "", NoUser, 0)
    /\ served = 0
    /\ opening = [a \in AccIds |-> 0]
    /\ latest = [a \in AccIds |-> 0]
    /\ without = [a \in AccIds |-> 0]
    /\ reqs = [r \in ReqIds |-> Idle]
    /\ sync = [isRunning |-> FALSE, syncInterval |-> 0, timers |-> {}, nextTimer |-> 1,
               running |-> 0, started |-> 0]

\* ------------------------------------------------------- POST /accounts
CreateAccount(u, balance) ==
    /\ Served
    /\ Commit([DB EXCEPT !.accounts = @ @@ (nextAcc :> NewAccountDoc(u, balance, NoPlaid, FALSE)),
                         !.nextAcc = @ + 1,
                         !.opening[nextAcc] = balance])
    /\ last' = Outcome("POST /accounts", 201, "Account created successfully", u, nextAcc)

\* ------------------------------------------------- DELETE /accounts/:id
DeleteAccount(u, a) ==
    /\ Served
    /\ IF ~FindOwnedAccount(accounts, a, u)
       THEN /\ Unchanged
            /\ last' = Outcome("DELETE /accounts", 404, "Account not found", u, a)
       ELSE /\ IF TransactionCount(txs, a) > 0
               THEN accounts' = [accounts EXCEPT ![a].isActive = FALSE]
               ELSE accounts' = [x \in DOMAIN accounts \ {a} |-> accounts[x]]
            /\ UNCHANGED <<txs, nextAcc, nextTx, opening, latest, without>>
            /\ last' = Outcome("DELETE /accounts", 200, "Account deleted successfully", u, a)

\* --------------------------------------------------- PUT /accounts/:id
\* name, type, description, color and icon are the only fields it writes
UpdateAccount(u, a) ==
    /\ Served
    /\ Unchanged
    /\ IF ~FindOwnedAccount(accounts, a, u)
       THEN last' = Outcome("PUT /accounts", 404, "Account not found", u, a)
       ELSE last' = Outcome("PUT /accounts", 200, "Account updated successfully", u, a)

\* --------------------------------------------------- POST /transactions
CreateTransaction(u, a, amount, type, date) ==
    /\ Served
    /\ IF ~FindActiveAccount(accounts, a, u)
       THEN /\ Unchanged
            /\ last' = Outcome("POST /transactions", 404, "Account not found", u, a)
       ELSE LET newBalance == NewBalance(accounts[a].balance, type, amount)
                doc == NewTxDoc(a, u, type, amount, date, newBalance, NoPlaid)
            IN
            /\ Commit([DB EXCEPT !.txs = @ @@ (nextTx :> doc),
                                 !.nextTx = @ + 1,
                                 !.accounts[a].balance = newBalance,
                                 !.latest[a] = nextTx,
                                 !.without[a] = accounts[a].balance])
            /\ last' = Outcome("POST /transactions", 201,
                               "Transaction created successfully", u, a)

\* ------------------------------------------------ PUT /transactions/:id
\* date = 0 stands for a request body without a date (date || transaction.date)
UpdateTransaction(u, t, amount, type, date) ==
    /\ Served
    /\ IF ~FindTransaction(txs, t, u)
       THEN /\ Unchanged
            /\ last' = Outcome("PUT /transactions", 404, "Transaction not found", u, t)
       ELSE IF txs[t].accountId \notin DOMAIN accounts
       THEN \* Account.findById gives null: account.balance throws, caught as 500
            /\ Unchanged
            /\ last' = Outcome("PUT /transactions", 500, "Failed to update transaction", u, t)
       ELSE LET a == txs[t].accountId
                reverted == RevertedBalance(txs[t])
                newAmount == SignedAmount(type, amount)
                newBalance == reverted + newAmount
                keep == latest[a] = t
            IN
            /\ Commit([DB EXCEPT !.txs[t].amount = newAmount,
                                 !.txs[t].type = type,
                                 !.txs[t].date = IF date = 0 THEN @ ELSE date,
                                 !.txs[t].balanceAfter = newBalance,
                                 !.txs[t].isUrgent = IsUrgent(amount),
                                 !.accounts[a].balance = newBalance,
                                 !.latest[a] = IF keep THEN @ ELSE 0,
                                 !.without[a] = IF keep THEN @ ELSE 0])
            /\ last' = Outcome("PUT /transactions", 200,
                               "Transaction updated successfully", u, t)

\* --------------------------------------------- DELETE /transactions/:id
DeleteTransaction(u, t) ==
    /\ Served
    /\ IF ~FindTransaction(txs, t, u)
       THEN /\ Unchanged
            /\ last' = Outcome("DELETE /transactions", 404, "Transaction not found", u, t)
       ELSE IF txs[t].accountId \notin DOMAIN accounts
       THEN /\ Unchanged
            /\ last' = Outcome("DELETE /transactions", 500, "Failed to delete transaction", u, t)
       ELSE LET a == txs[t].accountId
                reverted == RevertedBalance(txs[t])
            IN
            /\ Commit([DB EXCEPT !.accounts[a].balance = reverted,
                                 !.txs = WithoutTx(txs, t),
                                 !.latest[a] = 0,
                                 !.without[a] = 0])
            /\ last' = Outcome("DELETE /transactions", 200,
                               "Transaction deleted successfully", u, t)

\* ------------------------------------------- POST /banking/sync-accounts
\* plaidAccounts: the aggregator's accounts, each [account_id, current] with
\* current = <<>> for a null balance and <<n>> otherwise
RECURSIVE UpsertAccounts(_, _, _)
UpsertAccounts(db, u, plaidAccounts) ==
    IF plaidAccounts = <<>> THEN db
    ELSE LET pa == Head(plaidAccounts)
             falsy == pa.current = <<>> \/ pa.current[1] = 0
             existing == LinkedAccountsOf(db.accounts, u, pa.account_id)
         IN
         IF existing = {}
         THEN LET balance == IF falsy THEN 0 ELSE pa.current[1]
                  doc == NewAccountDoc(u, balance, pa.account_id, TRUE)
              IN UpsertAccounts([db EXCEPT !.accounts = @ @@ (db.nextAcc :> doc),
                                           !.nextAcc = @ + 1,
                                           !.opening[db.nextAcc] = balance],
                                u, Tail(plaidAccounts))
         ELSE LET a == Min(existing) IN
              UpsertAccounts(
                  IF falsy THEN db
                  ELSE [db EXCEPT !.accounts[a].balance = pa.current[1],
                                  !.latest[a] = 0,
                                  !.without[a] = 0],
                  u, Tail(plaidAccounts))

SyncAccountsRoute(u, plaidAccounts) ==
    /\ Served
    /\ Commit(UpsertAccounts(DB, u, plaidAccounts))
    /\ last' = Outcome("POST /banking/sync-accounts", 200, "Synced accounts", u, 0)

\* ------------------------------------ SyncService.syncAccountTransactions
\* the loop over the aggregator's transactions; balance is account.balance of
\* the in-memory document, persisted by the account.save() after the loop
RECURSIVE ImportFeed(_, _, _, _)
ImportFeed(db, a, balance, feed) ==
    IF feed = <<>> THEN [db |-> db, balance |-> balance]
    ELSE LET item == Head(feed)
             looked == [db EXCEPT !.seen = @ \cup {item.transaction_id}]
         IN
         IF ExistingTx(db.txs, item.transaction_id)
         THEN ImportFeed([looked EXCEPT !.dupes = @ \cup {item.transaction_id}],
                         a, balance, Tail(feed))
         ELSE LET type == PlaidType(item.amount)
                  newBalance == SyncNewBalance(balance, type, item.amount)
                  doc == ImportedTxDoc(a, db.accounts[a].userId, item, newBalance)
              IN ImportFeed([looked EXCEPT !.txs = @ @@ (db.nextTx :> doc),
                                           !.nextTx = @ + 1,
                                           !.latest[a] = db.nextTx,
                                           !.without[a] = balance],
                            a, newBalance, Tail(feed))

SyncAccountTransactions(db, a, feed) ==
    LET r == ImportFeed(db, a, db.accounts[a].balance, feed)
    IN [r.db EXCEPT !.accounts[a].balance = r.balance, !.synced = @ \cup {a}]

\* ---------------------------------------- SyncService.updateAccountBalance
\* current = <<>>: the aggregator has no such account, a null balance, or the
\* call failed (caught and logged); |balance - current| > 0.01 on integers
UpdateAccountBalance(db, a, current) ==
    IF current # <<>> /\ Abs(db.accounts[a].balance - current[1]) * 100 > 1
    THEN [db EXCEPT !.accounts[a].balance = current[1],
                    !.latest[a] = 0,
                    !.without[a] = 0]
    ELSE db

\* the body of the per-account loop of syncAllAccounts / syncUserAccounts
RECURSIVE SyncEach(_, _, _, _)
SyncEach(db, S, feeds, currents) ==
    IF S = {} THEN db
    ELSE LET a == Min(S) IN
         SyncEach(UpdateAccountBalance(SyncAccountTransactions(db, a, feeds[a]),
                                       a, currents[a]),
                  S \ {a}, feeds, currents)

\* Account.find({isPlaidLinked: true, plaidAccessToken: {$ne: null}})
ConnectedAccounts == {a \in DOMAIN accounts : accounts[a].isPlaidLinked}

\* ----------------------------------- SyncService.syncAllAccounts (timer)
SyncAllAccounts(feeds, currents) ==
    /\ Served
    /\ LET db == SyncEach(DB, ConnectedAccounts, feeds, currents) IN
       /\ Commit(db)
       /\ last' = SyncOutcome("syncAllAccounts", 0, "", NoUser, db)

\* ---------------------------------------------- POST /banking/sync-user
SyncUserAccounts(u, feeds, currents) ==
    /\ Served
    /\ LET mine == {a \in ConnectedAccounts : accounts[a].userId = u}
           db == SyncEach(DB, mine, feeds, currents)
       IN
       /\ Commit(db)
       /\ last' = SyncOutcome("POST /banking/sync-user", 200,
                              "Sync completed successfully", u, db)

\* --------------------------------------- POST /banking/sync-transactions
RECURSIVE RouteImport(_, _, _)
RouteImport(db, u, feed) ==
    IF feed = <<>> THEN db
    ELSE LET item == Head(feed)
             found == LinkedAccountsOf(db.accounts, u, item.account_id)
         IN
         IF found = {} THEN RouteImport(db, u, Tail(feed))
         ELSE LET a == Min(found)
                  looked == [db EXCEPT !.seen = @ \cup {item.transaction_id}]
              IN
              IF ExistingTx(db.txs, item.transaction_id)
              THEN RouteImport([looked EXCEPT !.dupes = @ \cup {item.transaction_id}],
                               u, Tail(feed))
              ELSE LET type == PlaidType(item.amount)
                       currentBalance == db.accounts[a].balance
                       newBalance == SyncNewBalance(currentBalance, type, item.amount)
                       doc == ImportedTxDoc(a, u, item, newBalance)
                   IN RouteImport([looked EXCEPT !.txs = @ @@ (db.nextTx :> doc),
                                                 !.nextTx = @ + 1,
                                                 !.accounts[a].balance = newBalance,
                                                 !.latest[a] = db.nextTx,
                                                 !.without[a] = currentBalance],
                                  u, Tail(feed))

SyncTransactionsRoute(u, feed) ==
    /\ Served
    /\ LET db == RouteImport(DB, u, feed) IN
       /\ Commit(db)
       /\ last' = SyncOutcome("POST /banking/sync-transactions", 200,
                              "Synced new transactions", u, db)

\* ------------------------------------------------ POST /banking/webhook
WebhookTypes == {"TRANSACTIONS", "ITEM"}
WebhookCodes == {"DEFAULT_UPDATE", "INITIAL_UPDATE"}
PlaidItemIds == {NoPlaid, "item1"}

\* Account.find({plaidItemId: item_id})
AccountsOfItem(A, item) == {a \in DOMAIN A : A[a].plaidItemId = item}

\* the loop over the accounts found only logs them (found); the answer is
\* {status: 'received'}
Webhook(type, code, item) ==
    /\ Served
    /\ Unchanged
    /\ last' = [op |-> "POST /banking/webhook", status |-> 200, message |-> "",
                user |-> NoUser, target |-> 0, seen |-> {}, dupes |-> {},
                synced |-> {}, body |-> {"status"},
                webhook_type |-> type, webhook_code |-> code, item_id |-> item,
                found |-> IF type = "TRANSACTIONS"
                                /\ code \in {"DEFAULT_UPDATE", "INITIAL_UPDATE"}
                          THEN AccountsOfItem(accounts, item) ELSE {}]

\* ------------------------------------------------- aggregator responses
\* the aggregator's ledger: an external transaction id names one transaction
PlaidLedger ==
    {[transaction_id |-> "p1", account_id |-> "pa1", amount |-> 1000, date |-> 1,
      name |-> {}],
     [transaction_id |-> "p2", account_id |-> "pa1", amount |-> -1001, date |-> 2,
      name |-> {"payroll"}]}

RECURSIVE SeqsUpTo(_, _)
SeqsUpTo(S, n) ==
    IF n = 0 THEN {<<>>}
    ELSE LET shorter == SeqsUpTo(S, n - 1)
         IN shorter \cup {Append(q, x) : q \in shorter, x \in S}

Feeds == SeqsUpTo(PlaidLedger, MaxFeed)

Currents == {<<>>} \cup {<<b>> : b \in PlaidBalances}

PlaidAccountLists ==
    {<<>>} \cup {<<[account_id |-> pa, current |-> c]>> : pa \in PlaidAccIds, c \in Currents}

\* ------------------------------------------------------------------- Next
Next ==
    \/ \E u \in Users, b \in InitBalances : CreateAccount(u, b)
    \/ \E u \in Users, a \in AccIds : DeleteAccount(u, a)
    \/ \E u \in Users, a \in AccIds, amount \in Amounts, type \in Types, d \in Dates :
          CreateTransaction(u, a, amount, type, d)
    \/ \E u \in Users, t \in TxIds, amount \in Amounts, type \in Types, d \in {0, 1} :
          UpdateTransaction(u, t, amount, type, d)
    \/ \E u \in Users, t \in TxIds : DeleteTransaction(u, t)
    \/ \E u \in Users, pas \in PlaidAccountLists : SyncAccountsRoute(u, pas)
    \/ \E feeds \in [ConnectedAccounts -> Feeds], currents \in [ConnectedAccounts -> Currents] :
          SyncAllAccounts(feeds, currents)
    \/ \E u \in Users :
          \E feeds \in [{a \in ConnectedAccounts : accounts[a].userId = u} -> Feeds],
             currents \in [{a \in ConnectedAccounts : accounts[a].userId = u} -> Currents] :
             SyncUserAccounts(u, feeds, currents)
    \/ \E u \in Users, feed \in Feeds : SyncTransactionsRoute(u, feed)
    \/ \E u \in Users, a \in AccIds : UpdateAccount(u, a)
    \/ \E type \in WebhookTypes, code \in WebhookCodes, item \in PlaidItemIds :
          Webhook(type, code, item)

Spec == Init /\ [][Next]_vars

\* the manual ledger alone: account and transaction requests of type income
\* or expense, no bank sync
NextLedger ==
    \/ \E u \in Users, b \in InitBalances : CreateAccount(u, b)
    \/ \E u \in Users, a \in AccIds : DeleteAccount(u, a)
    \/ \E u \in Users, a \in AccIds, amount \in Amounts, type \in {"income", "expense"},
          d \in Dates : CreateTransaction(u, a, amount, type, d)
    \/ \E u \in Users, t \in TxIds, amount \in Amounts, type \in {"income", "expense"},
          d \in {0, 1} : UpdateTransaction(u, t, amount, type, d)
    \/ \E u \in Users, t \in TxIds : DeleteTransaction(u, t)

SpecLedger == Init /\ [][NextLedger]_vars

\* ------------------------------------------------------ GET /transactions
MaxPage == 3
MaxLimit == 2

\* Transaction.find(filter): filter = {userId} plus accountId when the query
\* names one (a = 0: no accountId in the query)
Matching(T, u, a) ==
    {t \in DOMAIN T : T[t].userId = u /\ (a # 0 => T[t].accountId = a)}

\* .sort({date: -1}): newest first; documents of one date in _id order
RECURSIVE SortByDateDesc(_, _)
SortByDateDesc(T, S) ==
    IF S = {} THEN <<>>
    ELSE LET first == CHOOSE t \in S :
                 \A x \in S : \/ T[t].date > T[x].date
                              \/ T[t].date = T[x].date /\ t <= x
         IN <<first>> \o SortByDateDesc(T, S \ {first})

\* .limit(limit * 1).skip((page - 1) * limit)
PageOf(sorted, page, limit) ==
    LET skip == (page - 1) * limit
        upto == IF skip + limit < Len(sorted) THEN skip + limit ELSE Len(sorted)
    IN SubSeq(sorted, skip + 1, upto)

\* a next-page test that also holds on the exact last page
HasNextInclusive(page, limit, total) == page * limit <= total

\* hasNext: page * limit < total
HasNext(page, limit, total) == page * limit < total

\* hasPrev: page > 1
HasPrev(page) == page > 1

ListTransactions(u, a, page, limit) ==
    /\ Served
    /\ Unchanged
    /\ LET found == Matching(txs, u, a)
           total == Cardinality(found)
       IN last' = [op |-> "GET /transactions", status |-> 200, message |-> "",
                   user |-> u, target |-> a, seen |-> {}, dupes |-> {},
                   synced |-> {}, body |-> {"transactions", "pagination"},
                   transactions |-> PageOf(SortByDateDesc(txs, found), page, limit),
                   limit |-> limit,
                   pagination |-> [current |-> page, total |-> total,
                                   hasNext |-> HasNext(page, limit, total),
                                   hasPrev |-> HasPrev(page)]]

NextList ==
    \/ \E u \in Users, b \in InitBalances : CreateAccount(u, b)
    \/ \E u \in Users, a \in AccIds, type \in {"income", "expense"}, d \in Dates :
          CreateTransaction(u, a, 1000, type, d)
    \/ \E u \in Users, t \in TxIds : DeleteTransaction(u, t)
    \/ \E u \in Users, a \in {0} \cup AccIds, page \in 1..MaxPage, limit \in 1..MaxLimit :
          ListTransactions(u, a, page, limit)

SpecList == Init /\ [][NextList]_vars

\* the requests of the documented example: amounts 30 and 50 on an account
\* opened with 100
ScenarioAmounts == {30, 50}

NextScenario ==
    \/ \E u \in Users, b \in InitBalances : CreateAccount(u, b)
    \/ \E u \in Users, a \in AccIds, amount \in ScenarioAmounts,
          type \in {"income", "expense"}, d \in Dates :
          CreateTransaction(u, a, amount, type, d)
    \/ \E u \in Users, t \in TxIds : DeleteTransaction(u, t)

SpecScenario == Init /\ [][NextScenario]_vars

\* ================================================= the SyncService object
\* syncInterval = 0 stands for null; a timer is a number handed out by setInterval

\* this.syncAllAccounts() called without await: a run begins
RunBegins(sv) == [sv EXCEPT !.running = @ + 1, !.started = @ + 1]

\* a start that skips the isRunning test
StartAutoSyncUnguarded(sv) ==
    [RunBegins(sv) EXCEPT !.isRunning = TRUE,
                          !.syncInterval = sv.nextTimer,
                          !.timers = @ \cup {sv.nextTimer},
                          !.nextTimer = @ + 1]

\* startAutoSync: the service object after the call
StartAutoSyncEffect(sv) ==
    IF sv.isRunning THEN sv
    ELSE [RunBegins(sv) EXCEPT !.isRunning = TRUE,
                               !.syncInterval = sv.nextTimer,
                               !.timers = @ \cup {sv.nextTimer},
                               !.nextTimer = @ + 1]

\* stopAutoSync: the service object after the call
StopAutoSyncEffect(sv) ==
    IF sv.syncInterval # 0
    THEN [sv EXCEPT !.timers = @ \ {sv.syncInterval}, !.syncInterval = 0,
                    !.isRunning = FALSE]
    ELSE sv

\* a call on the service object: no request is answered, no document written
ServiceCall(op) ==
    /\ last' = Outcome(op, 0, "", NoUser, 0)
    /\ UNCHANGED <<accounts, txs, nextAcc, nextTx, served, opening, latest, without, reqs>>

StartAutoSync ==
    /\ sync.nextTimer <= MaxTimers
    /\ sync.started < MaxRuns
    /\ sync' = StartAutoSyncEffect(sync)
    /\ ServiceCall("startAutoSync")

StopAutoSync ==
    /\ sync' = StopAutoSyncEffect(sync)
    /\ ServiceCall("stopAutoSync")

\* an installed interval timer fires: the callback calls syncAllAccounts
TimerFires(k) ==
    /\ k \in sync.timers
    /\ sync.started < MaxRuns
    /\ sync' = RunBegins(sync)
    /\ ServiceCall("setInterval callback")

\* a run of syncAllAccounts comes to its end, its writes done
RunCompletes(feeds, currents) ==
    /\ sync.running > 0
    /\ sync' = [sync EXCEPT !.running = @ - 1]
    /\ LET db == SyncEach(DB, ConnectedAccounts, feeds, currents) IN
       /\ Commit(db)
       /\ last' = SyncOutcome("syncAllAccounts", 0, "", NoUser, db)
    /\ UNCHANGED <<served, reqs>>

NextTimer ==
    \/ StartAutoSync
    \/ StopAutoSync
    \/ \E k \in 1..MaxTimers : TimerFires(k)
    \/ \E feeds \in [ConnectedAccounts -> Feeds], currents \in [ConnectedAccounts -> Currents] :
          RunCompletes(feeds, currents)
    \/ \E u \in Users, pas \in PlaidAccountLists : SyncAccountsRoute(u, pas)

SpecTimer == Init /\ [][NextTimer]_vars

\* ======================================= handlers, one database call a step
\* Node runs a handler up to its next await; the steps of requests in flight
\* interleave at the database calls.  reqs[r] holds what handler r has read.

\* request numbers are given out in order of arrival
Arrives(r) == reqs[r].pc = "idle" /\ \A q \in ReqIds : q < r => reqs[q].pc # "idle"

\* a step of a handler that sends no response yet
StepOnly == UNCHANGED <<last, served, nextAcc, opening, sync>>

\* history: an account written by a step has no tracked latest creation
Untrack(a) ==
    /\ latest' = [x \in DOMAIN latest |-> IF x = a THEN 0 ELSE latest[x]]
    /\ without' = [x \in DOMAIN without |-> IF x = a THEN 0 ELSE without[x]]

\* the balance an account document is saved with: the value the handler computed
\* from what it read
SavedBalanceIncrement(current, req) == current + (req.newBalance - req.read)

SavedBalance(current, req) == req.newBalance

\* POST /transactions up to the balance computation: Account.findOne, the 404
\* return, newBalance
PostFindAccount(r, u, a, amount, type, date) ==
    /\ Arrives(r)
    /\ UNCHANGED <<accounts, txs, nextAcc, nextTx, served, opening, latest, without, sync>>
    /\ IF ~FindActiveAccount(accounts, a, u)
       THEN /\ reqs' = [reqs EXCEPT ![r] = [Idle EXCEPT !.op = "POST /transactions",
                                                        !.pc = "done", !.user = u,
                                                        !.account = a]]
            /\ last' = Outcome("POST /transactions", 404, "Account not found", u, a)
       ELSE /\ reqs' = [reqs EXCEPT ![r] =
                          [op |-> "POST /transactions", pc |-> "found", user |-> u,
                           target |-> 0, account |-> a, amount |-> amount, type |-> type,
                           date |-> date, read |-> accounts[a].balance,
                           newBalance |-> NewBalance(accounts[a].balance, type, amount)]]
            /\ last' = last

\* new Transaction({...}); await transaction.save()
PostSaveTransaction(r) ==
    /\ reqs[r].op = "POST /transactions" /\ reqs[r].pc = "found"
    /\ nextTx <= MaxTx
    /\ txs' = txs @@ (nextTx :> NewTxDoc(reqs[r].account, reqs[r].user, reqs[r].type,
                                         reqs[r].amount, reqs[r].date,
                                         reqs[r].newBalance, NoPlaid))
    /\ nextTx' = nextTx + 1
    /\ reqs' = [reqs EXCEPT ![r].pc = "transactionSaved", ![r].target = nextTx]
    /\ UNCHANGED <<accounts, latest, without>>
    /\ StepOnly

\* account.balance = newBalance; await account.save(); res.status(201)
PostSaveAccount(r) ==
    /\ reqs[r].op = "POST /transactions" /\ reqs[r].pc = "transactionSaved"
    /\ reqs[r].account \in DOMAIN accounts
    /\ accounts' = [accounts EXCEPT ![reqs[r].account].balance =
                                       SavedBalance(@, reqs[r])]
    /\ Untrack(reqs[r].account)
    /\ reqs' = [reqs EXCEPT ![r].pc = "done"]
    /\ last' = Outcome("POST /transactions", 201, "Transaction created successfully",
                       reqs[r].user, reqs[r].account)
    /\ UNCHANGED <<txs, nextAcc, nextTx, served, opening, sync>>

\* DELETE /transactions/:id up to the revert: Transaction.findOne, the 404
\* return, Account.findById, account.balance = balanceAfter - amount
DeleteFindTransaction(r, u, t) ==
    /\ Arrives(r)
    /\ UNCHANGED <<accounts, txs, nextAcc, nextTx, served, opening, latest, without, sync>>
    /\ IF ~FindTransaction(txs, t, u)
       THEN /\ reqs' = [reqs EXCEPT ![r] = [Idle EXCEPT !.op = "DELETE /transactions",
                                                        !.pc = "done", !.user = u,
                                                        !.target = t]]
            /\ last' = Outcome("DELETE /transactions", 404, "Transaction not found", u, t)
       ELSE IF txs[t].accountId \notin DOMAIN accounts
       THEN /\ reqs' = [reqs EXCEPT ![r] = [Idle EXCEPT !.op = "DELETE /transactions",
                                                        !.pc = "done", !.user = u,
                                                        !.target = t]]
            /\ last' = Outcome("DELETE /transactions", 500, "Failed to delete transaction", u, t)
       ELSE /\ reqs' = [reqs EXCEPT ![r] =
                          [op |-> "DELETE /transactions", pc |-> "found", user |-> u,
                           target |-> t, account |-> txs[t].accountId,
                           amount |-> txs[t].amount, type |-> txs[t].type,
                           date |-> txs[t].date, read |-> txs[t].balanceAfter,
                           newBalance |-> RevertedBalance(txs[t])]]
            /\ last' = last

\* await account.save()
DeleteSaveAccount(r) ==
    /\ reqs[r].op = "DELETE /transactions" /\ reqs[r].pc = "found"
    /\ reqs[r].account \in DOMAIN accounts
    /\ accounts' = [accounts EXCEPT ![reqs[r].account].balance = reqs[r].newBalance]
    /\ Untrack(reqs[r].account)
    /\ reqs' = [reqs EXCEPT ![r].pc = "accountSaved"]
    /\ UNCHANGED <<txs, nextTx>>
    /\ StepOnly

\* a handler that removes the record as soon as it has found it and answers,
\* without having saved the account
DeleteRemoveTransactionFirst(r) ==
    /\ reqs[r].op = "DELETE /transactions" /\ reqs[r].pc = "found"
    /\ txs' = WithoutTx(txs, reqs[r].target)
    /\ reqs' = [reqs EXCEPT ![r].pc = "done"]
    /\ last' = Outcome("DELETE /transactions", 200, "Transaction deleted successfully",
                       reqs[r].user, reqs[r].target)
    /\ UNCHANGED <<accounts, nextAcc, nextTx, served, opening, latest, without, sync>>

\* await Transaction.findByIdAndDelete(req.params.id); res.json
DeleteRemoveTransaction(r) ==
    /\ reqs[r].op = "DELETE /transactions" /\ reqs[r].pc = "accountSaved"
    /\ txs' = WithoutTx(txs, reqs[r].target)
    /\ reqs' = [reqs EXCEPT ![r].pc = "done"]
    /\ last' = Outcome("DELETE /transactions", 200, "Transaction deleted successfully",
                       reqs[r].user, reqs[r].target)
    /\ UNCHANGED <<accounts, nextAcc, nextTx, served, opening, latest, without, sync>>

\* a catch block that takes back the record the failed create had saved
RequestFailsRollsBack(r) ==
    /\ reqs[r].pc \in {"found", "transactionSaved", "accountSaved"}
    /\ reqs' = [reqs EXCEPT ![r].pc = "failed"]
    /\ last' = Outcome(reqs[r].op, 500, "Failed", reqs[r].user, reqs[r].target)
    /\ txs' = IF reqs[r].op = "POST /transactions" /\ reqs[r].pc = "transactionSaved"
              THEN WithoutTx(txs, reqs[r].target) ELSE txs
    /\ UNCHANGED <<accounts, nextAcc, nextTx, served, opening, latest, without, sync>>

\* the database call a handler is waiting on rejects (or the connection drops):
\* the catch block answers 500 and nothing the handler wrote is taken back
RequestFails(r) ==
    /\ reqs[r].pc \in {"found", "transactionSaved", "accountSaved"}
    /\ reqs' = [reqs EXCEPT ![r].pc = "failed"]
    /\ last' = Outcome(reqs[r].op, 500,
                       IF reqs[r].op = "POST /transactions"
                       THEN "Failed to create transaction"
                       ELSE IF reqs[r].op = "PUT /transactions"
                       THEN "Failed to update transaction"
                       ELSE "Failed to delete transaction",
                       reqs[r].user,
                       IF reqs[r].op = "POST /transactions"
                       THEN reqs[r].account ELSE reqs[r].target)
    /\ UNCHANGED <<accounts, txs, nextAcc, nextTx, served, opening, latest, without, sync>>

NextSteps ==
    \/ \E u \in Users, b \in InitBalances : CreateAccount(u, b)
    \/ \E r \in ReqIds, u \in Users, a \in AccIds, amount \in Amounts, type \in Types :
          PostFindAccount(r, u, a, amount, type, 1)
    \/ \E r \in ReqIds : PostSaveTransaction(r)
    \/ \E r \in ReqIds : PostSaveAccount(r)
    \/ \E r \in ReqIds, u \in Users, t \in TxIds : DeleteFindTransaction(r, u, t)
    \/ \E r \in ReqIds : DeleteSaveAccount(r)
    \/ \E r \in ReqIds : DeleteRemoveTransaction(r)
    \/ \E r \in ReqIds : RequestFails(r)

SpecSteps == Init /\ [][NextSteps]_vars

\* ----------------------- PUT /transactions/:id, one database call a step
\* a handler that saves the account with the reverted balance as soon as it
\* has computed it, before the transaction is saved
PutFindTransactionSavesRevert(r, u, t, amount, type) ==
    /\ Arrives(r)
    /\ FindTransaction(txs, t, u)
    /\ txs[t].accountId \in DOMAIN accounts
    /\ accounts' = [accounts EXCEPT ![txs[t].accountId].balance = RevertedBalance(txs[t])]
    /\ reqs' = [reqs EXCEPT ![r] =
                  [op |-> "PUT /transactions", pc |-> "found", user |-> u,
                   target |-> t, account |-> txs[t].accountId, amount |-> amount,
                   type |-> type, date |-> txs[t].date, read |-> txs[t].balanceAfter,
                   newBalance |-> RevertedBalance(txs[t]) + SignedAmount(type, amount)]]
    /\ UNCHANGED <<txs, nextAcc, nextTx, last, served, opening, latest, without, sync>>

\* Transaction.findOne and the 404 return, Account.findById, the reverted
\* balance, newAmount and newBalance; the assignments are to the documents in
\* memory
PutFindTransaction(r, u, t, amount, type) ==
    /\ Arrives(r)
    /\ UNCHANGED <<accounts, txs, nextAcc, nextTx, served, opening, latest, without, sync>>
    /\ IF ~FindTransaction(txs, t, u)
       THEN /\ reqs' = [reqs EXCEPT ![r] = [Idle EXCEPT !.op = "PUT /transactions",
                                                        !.pc = "done", !.user = u,
                                                        !.target = t]]
            /\ last' = Outcome("PUT /transactions", 404, "Transaction not found", u, t)
       ELSE IF txs[t].accountId \notin DOMAIN accounts
       THEN /\ reqs' = [reqs EXCEPT ![r] = [Idle EXCEPT !.op = "PUT /transactions",
                                                        !.pc = "done", !.user = u,
                                                        !.target = t]]
            /\ last' = Outcome("PUT /transactions", 500, "Failed to update transaction", u, t)
       ELSE /\ reqs' = [reqs EXCEPT ![r] =
                          [op |-> "PUT /transactions", pc |-> "found", user |-> u,
                           target |-> t, account |-> txs[t].accountId,
                           amount |-> amount, type |-> type, date |-> txs[t].date,
                           read |-> txs[t].balanceAfter,
                           newBalance |-> RevertedBalance(txs[t])
                                          + SignedAmount(type, amount)]]
            /\ last' = last

\* await transaction.save()
PutSaveTransaction(r) ==
    /\ reqs[r].op = "PUT /transactions" /\ reqs[r].pc = "found"
    /\ reqs[r].target \in DOMAIN txs
    /\ txs' = [txs EXCEPT ![reqs[r].target].amount = SignedAmount(reqs[r].type, reqs[r].amount),
                          ![reqs[r].target].type = reqs[r].type,
                          ![reqs[r].target].balanceAfter = reqs[r].newBalance,
                          ![reqs[r].target].isUrgent = IsUrgent(reqs[r].amount)]
    /\ reqs' = [reqs EXCEPT ![r].pc = "transactionSaved"]
    /\ UNCHANGED <<accounts, nextTx, latest, without>>
    /\ StepOnly

\* account.balance = newBalance; await account.save(); res.json
PutSaveAccount(r) ==
    /\ reqs[r].op = "PUT /transactions" /\ reqs[r].pc = "transactionSaved"
    /\ reqs[r].account \in DOMAIN accounts
    /\ accounts' = [accounts EXCEPT ![reqs[r].account].balance = reqs[r].newBalance]
    /\ Untrack(reqs[r].account)
    /\ reqs' = [reqs EXCEPT ![r].pc = "done"]
    /\ last' = Outcome("PUT /transactions", 200, "Transaction updated successfully",
                       reqs[r].user, reqs[r].target)
    /\ UNCHANGED <<txs, nextAcc, nextTx, served, opening, sync>>

NextUpdateSteps ==
    \/ \E u \in Users, b \in InitBalances : CreateAccount(u, b)
    \/ \E r \in ReqIds, u \in Users, a \in AccIds, amount \in Amounts, type \in Types :
          PostFindAccount(r, u, a, amount, type, 1)
    \/ \E r \in ReqIds : PostSaveTransaction(r)
    \/ \E r \in ReqIds : PostSaveAccount(r)
    \/ \E r \in ReqIds, u \in Users, t \in TxIds, amount \in Amounts, type \in Types :
          PutFindTransaction(r, u, t, amount, type)
    \/ \E r \in ReqIds : PutSaveTransaction(r)
    \/ \E r \in ReqIds : PutSaveAccount(r)
    \/ \E r \in ReqIds : RequestFails(r)

SpecUpdateSteps == Init /\ [][NextUpdateSteps]_vars

\* -------------------------- DELETE /accounts/:id, one database call a step
\* Account.findOne({_id, userId}) and the 404 return
AccountDeleteFind(r, u, a) ==
    /\ Arrives(r)
    /\ UNCHANGED <<accounts, txs, nextAcc, nextTx, served, opening, latest, without, sync>>
    /\ IF ~FindOwnedAccount(accounts, a, u)
       THEN /\ reqs' = [reqs EXCEPT ![r] = [Idle EXCEPT !.op = "DELETE /accounts",
                                                        !.pc = "done", !.user = u,
                                                        !.account = a]]
            /\ last' = Outcome("DELETE /accounts", 404, "Account not found", u, a)
       ELSE /\ reqs' = [reqs EXCEPT ![r] = [Idle EXCEPT !.op = "DELETE /accounts",
                                                        !.pc = "accountFound",
                                                        !.user = u, !.account = a]]
            /\ last' = last

\* await Transaction.countDocuments({accountId}); read is transactionCount
AccountDeleteCount(r) ==
    /\ reqs[r].op = "DELETE /accounts" /\ reqs[r].pc = "accountFound"
    /\ reqs' = [reqs EXCEPT ![r].pc = "counted",
                            ![r].read = TransactionCount(txs, reqs[r].account)]
    /\ UNCHANGED <<accounts, txs, nextTx, latest, without>>
    /\ StepOnly

\* transactionCount > 0: account.isActive = false, account.save(); otherwise
\* Account.findByIdAndDelete; res.json
AccountDeleteWrite(r) ==
    /\ reqs[r].op = "DELETE /accounts" /\ reqs[r].pc = "counted"
    /\ LET a == reqs[r].account IN
       accounts' = IF a \notin DOMAIN accounts THEN accounts
                   ELSE IF reqs[r].read > 0
                   THEN [accounts EXCEPT ![a].isActive = FALSE]
                   ELSE [x \in DOMAIN accounts \ {a} |-> accounts[x]]
    /\ reqs' = [reqs EXCEPT ![r].pc = "done"]
    /\ last' = Outcome("DELETE /accounts", 200, "Account deleted successfully",
                       reqs[r].user, reqs[r].account)
    /\ UNCHANGED <<txs, nextAcc, nextTx, served, opening, latest, without, sync>>

\* account.save() of POST /transactions when the account document is gone:
\* depending on the Mongoose version the save rejects (caught, 500) or
\* resolves without having written anything (201)
PostSaveAccountGone(r, rejects) ==
    /\ reqs[r].op = "POST /transactions" /\ reqs[r].pc = "transactionSaved"
    /\ reqs[r].account \notin DOMAIN accounts
    /\ reqs' = [reqs EXCEPT ![r].pc = IF rejects THEN "failed" ELSE "done"]
    /\ last' = IF rejects
               THEN Outcome("POST /transactions", 500, "Failed to create transaction",
                            reqs[r].user, reqs[r].account)
               ELSE Outcome("POST /transactions", 201, "Transaction created successfully",
                            reqs[r].user, reqs[r].account)
    /\ UNCHANGED <<accounts, txs, nextAcc, nextTx, served, opening, latest, without, sync>>

NextAccountSteps ==
    \/ \E u \in Users, b \in InitBalances : CreateAccount(u, b)
    \/ \E r \in ReqIds, u \in Users, a \in AccIds, amount \in Amounts, type \in Types :
          PostFindAccount(r, u, a, amount, type, 1)
    \/ \E r \in ReqIds : PostSaveTransaction(r)
    \/ \E r \in ReqIds : PostSaveAccount(r)
    \/ \E r \in ReqIds, rejects \in BOOLEAN : PostSaveAccountGone(r, rejects)
    \/ \E r \in ReqIds, u \in Users, a \in AccIds : AccountDeleteFind(r, u, a)
    \/ \E r \in ReqIds : AccountDeleteCount(r)
    \/ \E r \in ReqIds : AccountDeleteWrite(r)

SpecAccountSteps == Init /\ [][NextAccountSteps]_vars

\* ------------------------------- bank-sync runs, one database call a step
\* A run (syncAllAccounts, sync-user or sync-transactions) that has its account
\* and handles one transaction of the aggregator's answer.

\* Transaction.findOne({plaidTransactionId}); when none is found, type and
\* newBalance from the account document the run holds
SyncFindExisting(r, op, a, item) ==
    /\ Arrives(r)
    /\ a \in ConnectedAccounts
    /\ item.account_id = accounts[a].plaidAccountId
    /\ reqs' = [reqs EXCEPT ![r] =
                  IF ExistingTx(txs, item.transaction_id)
                  THEN [Idle EXCEPT !.op = op, !.pc = "done", !.account = a,
                                    !.user = accounts[a].userId]
                  ELSE [op |-> op, pc |-> "notFound", user |-> accounts[a].userId,
                        target |-> 0, account |-> a, amount |-> item.amount,
                        type |-> PlaidType(item.amount), date |-> item.date,
                        read |-> accounts[a].balance,
                        newBalance |-> SyncNewBalance(accounts[a].balance,
                                                      PlaidType(item.amount), item.amount),
                        item |-> item]]
    /\ UNCHANGED <<accounts, txs, nextAcc, nextTx, last, served, opening, latest, without, sync>>

\* await newTransaction.save()
SyncSaveTransaction(r) ==
    /\ reqs[r].op \in {"syncAllAccounts", "POST /banking/sync-user",
                       "POST /banking/sync-transactions"}
    /\ reqs[r].pc = "notFound"
    /\ nextTx <= MaxTx
    /\ txs' = txs @@ (nextTx :> ImportedTxDoc(reqs[r].account, reqs[r].user,
                                              reqs[r].item, reqs[r].newBalance))
    /\ nextTx' = nextTx + 1
    /\ reqs' = [reqs EXCEPT ![r].pc = "imported", ![r].target = nextTx]
    /\ UNCHANGED <<accounts, latest, without>>
    /\ StepOnly

\* account.balance = newBalance; await account.save()
SyncSaveAccount(r) ==
    /\ reqs[r].pc = "imported"
    /\ reqs[r].account \in DOMAIN accounts
    /\ accounts' = [accounts EXCEPT ![reqs[r].account].balance = reqs[r].newBalance]
    /\ Untrack(reqs[r].account)
    /\ reqs' = [reqs EXCEPT ![r].pc = "done"]
    /\ last' = Outcome(reqs[r].op, 200, "", reqs[r].user, reqs[r].account)
    /\ UNCHANGED <<txs, nextAcc, nextTx, served, opening, sync>>

NextSyncSteps ==
    \/ \E u \in Users, pas \in PlaidAccountLists : SyncAccountsRoute(u, pas)
    \/ \E r \in ReqIds, a \in AccIds, item \in PlaidLedger,
          op \in {"syncAllAccounts", "POST /banking/sync-user",
                  "POST /banking/sync-transactions"} :
          SyncFindExisting(r, op, a, item)
    \/ \E r \in ReqIds : SyncSaveTransaction(r)
    \/ \E r \in ReqIds : SyncSaveAccount(r)

SpecSyncSteps == Init /\ [][NextSyncSteps]_vars

\* ============================================================== claims
TxOfAccount(a) == {t \in DOMAIN txs : txs[t].accountId = a}

RECURSIVE SumIn(_, _)
SumIn(T, S) ==
    IF S = {} THEN 0
    ELSE LET t == CHOOSE x \in S : TRUE IN T[t].amount + SumIn(T, S \ {t})

SumAmounts(S) == SumIn(txs, S)

Created == DOMAIN txs' \ DOMAIN txs

SyncOps == {"syncAllAccounts", "POST /banking/sync-user", "POST /banking/sync-transactions"}

WithPlaidId(p) == {t \in DOMAIN txs : txs[t].plaidTransactionId = p}

SuppliedMagnitudes == {Abs(v) : v \in Amounts} \cup {Abs(i.amount) : i \in PlaidLedger}

\* C1: in every reachable state an account's balance is its opening balance
\* plus the sum of the stored amounts of its existing transactions
C1_BalanceIsOpeningPlusAmounts ==
    \A a \in DOMAIN accounts :
        accounts[a].balance = opening[a] + SumAmounts(TxOfAccount(a))

\* C2: every successful POST /transactions, of whatever type, moves the
\* account balance by exactly the stored signed amount of the new transaction
C2_CreateAddsStoredAmount ==
    [][(last'.op = "POST /transactions" /\ last'.status = 201) =>
          \A t \in Created :
              accounts'[txs'[t].accountId].balance
                  = accounts[txs'[t].accountId].balance + txs'[t].amount]_vars

\* C3: right after a successful POST /transactions the new transaction's
\* balanceAfter is the persisted balance of its account
C3_BalanceAfterIsBalance ==
    [][(last'.op = "POST /transactions" /\ last'.status = 201) =>
          /\ Created # {}
          /\ \A t \in Created :
                /\ txs'[t].accountId = last'.target
                /\ txs'[t].balanceAfter = accounts'[last'.target].balance]_vars

C3_Witness ==
    /\ last.op = "POST /transactions" /\ last.status = 201
    /\ nextTx - 1 \in DOMAIN txs
    /\ txs[nextTx - 1].type = "expense"
    /\ txs[nextTx - 1].balanceAfter = accounts[last.target].balance
    /\ accounts[last.target].balance # opening[last.target]

\* C4: deleting the transaction created last on an account (possibly after
\* updating it) puts the balance back to what it was before that creation
C4_DeleteLatestRestores ==
    [][\A a \in AccIds :
          (/\ last'.op = "DELETE /transactions" /\ last'.status = 200
           /\ latest[a] # 0 /\ last'.target = latest[a]) =>
              accounts'[a].balance = without[a]]_vars

\* C5: every stored balanceAfter is the opening balance plus the amounts of
\* the transaction itself and of the same account's earlier-dated transactions
\* (transactions of one date count in their order of creation)
C5_BalanceAfterByDate ==
    \A t \in DOMAIN txs :
        LET a == txs[t].accountId
            earlier == {s \in TxOfAccount(a) :
                           \/ txs[s].date < txs[t].date
                           \/ txs[s].date = txs[t].date /\ s < t}
        IN txs[t].balanceAfter = opening[a] + txs[t].amount + SumAmounts(earlier)

\* C6: a stored expense amount is minus a supplied magnitude, a stored income
\* or transfer amount is a supplied magnitude, whatever sign was supplied
C6_StoredSign ==
    \A t \in DOMAIN txs :
        IF txs[t].type = "expense"
        THEN txs[t].amount <= 0 /\ -txs[t].amount \in SuppliedMagnitudes
        ELSE txs[t].amount >= 0 /\ txs[t].amount \in SuppliedMagnitudes

\* an income stored as +1001: only the request amount -1001 has that magnitude
C6_Witness ==
    /\ \E t \in DOMAIN txs :
          /\ txs[t].plaidTransactionId = NoPlaid
          /\ txs[t].type = "income" /\ txs[t].amount = 1001
    /\ \E t \in DOMAIN txs : txs[t].type = "expense" /\ txs[t].amount = -1000

\* C7: isUrgent holds exactly when the stored amount's absolute value is
\* above 1000; exactly 1000 is not urgent
C7_UrgentIffOver1000 ==
    \A t \in DOMAIN txs :
        txs[t].isUrgent <=> (txs[t].amount > 1000 \/ txs[t].amount < -1000)

C7_Witness ==
    /\ last.op = "PUT /transactions" /\ last.status = 200
    /\ txs[last.target].isUrgent /\ txs[last.target].amount = -1001
    /\ \E t \in DOMAIN txs : ~txs[t].isUrgent /\ txs[t].amount = 1000

\* C8: an external transaction id is stored at most once; after a sync run
\* every id it looked up is stored exactly once; a transaction the run found
\* already stored is left as it was, and the run moves an account's balance
\* by the amounts of the transactions it created only (or, in the service,
\* sets it to the balance the aggregator reports): a stored id is not
\* applied to the balance again
C8_SyncIdempotent ==
    /\ [](\A p \in PlaidTxIds :
             /\ Cardinality(WithPlaidId(p)) <= 1
             /\ (last.op \in SyncOps /\ p \in last.seen) => Cardinality(WithPlaidId(p)) = 1)
    /\ [][last'.op \in SyncOps =>
             /\ \A t \in DOMAIN txs :
                   txs[t].plaidTransactionId \in last'.dupes =>
                       (t \in DOMAIN txs' /\ txs'[t] = txs[t])
             /\ \A a \in DOMAIN accounts :
                   /\ a \in DOMAIN accounts'
                   /\ \/ accounts'[a].balance = accounts[a].balance
                              + SumIn(txs', {t \in Created : txs'[t].accountId = a})
                      \/ /\ last'.op # "POST /banking/sync-transactions"
                         /\ accounts'[a].balance \in PlaidBalances]_vars

C8_Witness ==
    /\ last.op \in SyncOps
    /\ "p1" \in last.dupes
    /\ Cardinality(WithPlaidId("p1")) = 1

\* C9: POST /transactions on an account that is missing, owned by someone
\* else or inactive answers 404 'Account not found' and changes no record
C9_CreateNeedsActiveOwnAccount ==
    [][(/\ last'.op = "POST /transactions"
        /\ ~(/\ last'.target \in DOMAIN accounts
             /\ accounts[last'.target].userId = last'.user
             /\ accounts[last'.target].isActive)) =>
          /\ last'.status = 404 /\ last'.message = "Account not found"
          /\ txs' = txs /\ accounts' = accounts]_vars

C9_Witness ==
    /\ last.op = "POST /transactions" /\ last.status = 404
    /\ last.target \in DOMAIN accounts
    /\ accounts[last.target].userId = last.user
    /\ ~accounts[last.target].isActive

\* C10: PUT and DELETE /transactions/:id on a transaction that is missing or
\* owned by someone else answer 404 'Transaction not found' and change no record
C10_UpdateDeleteNeedOwnTransaction ==
    [][(/\ last'.op \in {"PUT /transactions", "DELETE /transactions"}
        /\ ~(/\ last'.target \in DOMAIN txs
             /\ txs[last'.target].userId = last'.user)) =>
          /\ last'.status = 404 /\ last'.message = "Transaction not found"
          /\ txs' = txs /\ accounts' = accounts]_vars

C10_Witness ==
    /\ last.op = "DELETE /transactions" /\ last.status = 404
    /\ last.target \in DOMAIN txs
    /\ txs[last.target].userId # last.user

\* C11: a successful PUT /transactions/:id takes the old stored amount out of
\* the old snapshot and adds the new stored amount; the result is written to
\* both the transaction's balanceAfter and the account's balance
C11_UpdateRevertsAndReapplies ==
    [][(last'.op = "PUT /transactions" /\ last'.status = 200) =>
          LET t == last'.target
              a == txs[t].accountId
              revertedBalance == txs[t].balanceAfter - txs[t].amount
          IN /\ t \in DOMAIN txs'
             /\ txs'[t].accountId = a
             /\ Abs(txs'[t].amount) \in SuppliedMagnitudes
             /\ txs'[t].balanceAfter = revertedBalance + txs'[t].amount
             /\ accounts'[a].balance = revertedBalance + txs'[t].amount
             /\ accounts'[a].balance = txs'[t].balanceAfter]_vars

\* an update that changed the stored amount, on an account whose balance was
\* not the transaction's snapshot before the update
C11_Witness ==
    /\ last.op = "PUT /transactions" /\ last.status = 200
    /\ last.target \in DOMAIN txs
    /\ txs[last.target].amount = -1001
    /\ accounts[txs[last.target].accountId].balance = txs[last.target].balanceAfter
    /\ \E s \in DOMAIN txs : s > last.target /\ txs[s].accountId = txs[last.target].accountId

C20_CreateOverwritesBalance ==
    [][\A r \in ReqIds :
          (/\ reqs[r].op = "POST /transactions"
           /\ reqs[r].pc = "transactionSaved" /\ reqs'[r].pc = "done") =>
              accounts'[reqs[r].account].balance
                  = reqs[r].read + (IF reqs[r].type = "income" THEN Abs(reqs[r].amount)
                                    ELSE IF reqs[r].type = "expense" THEN -Abs(reqs[r].amount)
                                    ELSE 0)]_vars

\* the lost update: two creates answered 201 on one account, no other request,
\* both records stored on the same baseline, the balance holding one amount
C20_Witness ==
    /\ \A r \in ReqIds : reqs[r].op \in {"idle", "POST /transactions"}
    /\ \E r1, r2 \in ReqIds :
          /\ r1 # r2
          /\ reqs[r1].op = "POST /transactions" /\ reqs[r1].pc = "done"
          /\ reqs[r2].op = "POST /transactions" /\ reqs[r2].pc = "done"
          /\ reqs[r1].target \in DOMAIN txs /\ reqs[r2].target \in DOMAIN txs
          /\ reqs[r1].account = reqs[r2].account
          /\ reqs[r1].read = reqs[r2].read
          /\ reqs[r1].type = "income" /\ reqs[r2].type = "income"
          /\ txs[reqs[r1].target].balanceAfter = reqs[r1].read + txs[reqs[r1].target].amount
          /\ txs[reqs[r2].target].balanceAfter = reqs[r1].read + txs[reqs[r2].target].amount
          /\ accounts[reqs[r1].account].balance = txs[reqs[r2].target].balanceAfter
          /\ accounts[reqs[r1].account].balance
                # reqs[r1].read + txs[reqs[r1].target].amount + txs[reqs[r2].target].amount

\* C13: on an account opened with 100, creating an expense of 30 gives balance
\* 70 and a transaction (-30, balanceAfter 70); creating an income of 50 next
\* gives balance 120 and a transaction (50, balanceAfter 120); deleting the
\* expense then gives balance 100 and leaves the income's balanceAfter at 120
C13_Scenario ==
    [][\A a \in DOMAIN accounts :
          LET mine == TxOfAccount(a)
              new == {t \in Created : txs'[t].accountId = a}
              posted == last'.op = "POST /transactions" /\ last'.status = 201
                            /\ last'.target = a
              expense30 == {t \in mine : txs[t] = [txs[t] EXCEPT !.type = "expense",
                                                    !.amount = -30, !.balanceAfter = 70]}
              income50 == {t \in mine : txs[t] = [txs[t] EXCEPT !.type = "income",
                                                   !.amount = 50, !.balanceAfter = 120]}
          IN
          /\ (/\ posted /\ accounts[a].balance = 100 /\ mine = {}
              /\ \E t \in new : txs'[t].type = "expense" /\ Abs(txs'[t].amount) = 30) =>
                 /\ accounts'[a].balance = 70
                 /\ \A t \in new : txs'[t].amount = -30 /\ txs'[t].balanceAfter = 70
          /\ (/\ posted /\ accounts[a].balance = 70
              /\ Cardinality(mine) = 1 /\ mine = expense30
              /\ \E t \in new : txs'[t].type = "income" /\ Abs(txs'[t].amount) = 50) =>
                 /\ accounts'[a].balance = 120
                 /\ \A t \in new : txs'[t].amount = 50 /\ txs'[t].balanceAfter = 120
          /\ (/\ last'.op = "DELETE /transactions" /\ last'.status = 200
              /\ accounts[a].balance = 120
              /\ Cardinality(mine) = 2
              /\ Cardinality(expense30) = 1 /\ Cardinality(income50) = 1
              /\ last'.target \in expense30) =>
                 /\ accounts'[a].balance = 100
                 /\ DOMAIN txs' = DOMAIN txs \ expense30
                 /\ \A t \in income50 : txs'[t] = txs[t] /\ txs'[t].balanceAfter = 120]_vars

\* the end of the example: the expense deleted, the income left with its
\* snapshot of 120 on an account whose balance is back at 100
C13_Witness ==
    /\ last.op = "DELETE /transactions" /\ last.status = 200
    /\ \E a \in DOMAIN accounts :
          /\ opening[a] = 100 /\ accounts[a].balance = 100
          /\ last.target \notin DOMAIN txs
          /\ \E t \in TxOfAccount(a) :
                /\ TxOfAccount(a) = {t}
                /\ t > last.target
                /\ txs[t].type = "income" /\ txs[t].amount = 50
                /\ txs[t].balanceAfter = 120

\* C14: GET /transactions answers hasNext exactly when page * limit is below
\* the number of matching transactions, hasPrev exactly when page is above 1,
\* and at most limit transactions, each owned by the requester
C14_Pagination ==
    last.op = "GET /transactions" =>
        LET total == Cardinality({t \in DOMAIN txs :
                         /\ txs[t].userId = last.user
                         /\ last.target # 0 => txs[t].accountId = last.target})
            page == last.pagination.current
        IN /\ last.pagination.total = total
           /\ last.pagination.hasNext <=> (page * last.limit < total)
           /\ last.pagination.hasPrev <=> (page > 1)
           /\ Len(last.transactions) <= last.limit
           /\ \A i \in 1..Len(last.transactions) :
                 /\ last.transactions[i] \in DOMAIN txs
                 /\ txs[last.transactions[i]].userId = last.user

\* the second of two pages of one transaction each: no next page, a previous
\* page, one transaction returned
C14_Witness ==
    /\ last.op = "GET /transactions"
    /\ last.pagination.current = 2 /\ last.limit = 1 /\ last.pagination.total = 2
    /\ ~last.pagination.hasNext /\ last.pagination.hasPrev
    /\ Len(last.transactions) = 1

\* C15: DELETE /accounts/:id on the requester's own account succeeds; it keeps
\* the record with isActive = false when a transaction references the account
\* and removes the record when none does, whatever the account had before
C15_DeleteAccountSoftOrHard ==
    [][(/\ last'.op = "DELETE /accounts"
        /\ last'.target \in DOMAIN accounts
        /\ accounts[last'.target].userId = last'.user) =>
          LET a == last'.target IN
          /\ last'.status = 200
          /\ txs' = txs
          /\ IF \E t \in DOMAIN txs : txs[t].accountId = a
             THEN /\ a \in DOMAIN accounts'
                  /\ accounts'[a] = [accounts[a] EXCEPT !.isActive = FALSE]
             ELSE a \notin DOMAIN accounts']_vars

\* an account removed for good although a transaction had once been created
C15_Witness ==
    /\ last.op = "DELETE /accounts" /\ last.status = 200
    /\ last.target \notin DOMAIN accounts
    /\ nextTx > 1
    /\ txs = <<>>

\* C16: an existing account's balance changes only as the effect of a
\* transaction create, update or delete on that account (an imported
\* transaction counts as a create); PUT and DELETE /accounts/:id, POST
\* /banking/sync-accounts and updateAccountBalance leave it as it is
C16_BalanceChangesOnlyByTransactions ==
    [][\A a \in DOMAIN accounts \cap DOMAIN accounts' :
          accounts'[a].balance # accounts[a].balance =>
              \/ /\ last'.op \in {"POST /transactions", "PUT /transactions",
                                   "DELETE /transactions"}
                 /\ last'.status \in {200, 201}
              \/ \E t \in Created : txs'[t].accountId = a]_vars

\* C17: a response that is not a success has status 404 or 500 and a body
\* with both a message and an error field
C17_ErrorResponses ==
    last.status \notin {0, 200, 201} =>
        /\ last.status \in {404, 500}
        /\ {"message", "error"} \subseteq last.body

\* C18: a webhook of type TRANSACTIONS with code DEFAULT_UPDATE or
\* INITIAL_UPDATE runs the transaction sync on every linked account whose
\* plaidItemId is the webhook's item_id
C18_WebhookSyncs ==
    [][(/\ last'.op = "POST /banking/webhook"
        /\ last'.webhook_type = "TRANSACTIONS"
        /\ last'.webhook_code \in {"DEFAULT_UPDATE", "INITIAL_UPDATE"}) =>
          \A a \in DOMAIN accounts :
              (accounts[a].isPlaidLinked /\ accounts[a].plaidItemId = last'.item_id)
                  => a \in last'.synced]_vars

\* C19: an import of aggregator transactions gives each new transaction the
\* balance before it plus its stored amount as balanceAfter and leaves the
\* account with its balance before the import plus the stored amounts of all
\* new transactions; by syncAccountTransactions and by the loop of
\* POST /banking/sync-transactions, on every reachable state and every feed
C19_ImportAddsStoredAmounts ==
    LET Holds(db, a) ==
            LET new == {t \in DOMAIN db.txs \ DOMAIN txs : db.txs[t].accountId = a}
            IN /\ \A t \in new :
                     db.txs[t].balanceAfter
                         = accounts[a].balance + SumIn(db.txs, {x \in new : x <= t})
               /\ db.accounts[a].balance = accounts[a].balance + SumIn(db.txs, new)
    IN /\ \A a \in ConnectedAccounts, feed \in Feeds :
             Holds(SyncAccountTransactions(DB, a, feed), a)
       /\ \A u \in Users, feed \in Feeds, a \in DOMAIN accounts :
             Holds(RouteImport(DB, u, feed), a)

\* a run that imported both aggregator transactions into one account:
\* 100 + 1001 (income) - 1000 (expense), in either order
C19_Witness ==
    /\ last.op \in SyncOps
    /\ last.seen = {"p1", "p2"} /\ last.dupes = {}
    /\ \E a \in DOMAIN accounts :
          /\ TxOfAccount(a) = WithPlaidId("p1") \cup WithPlaidId("p2")
          /\ Cardinality(TxOfAccount(a)) = 2
          /\ accounts[a].balance = opening[a] + SumAmounts(TxOfAccount(a))
          /\ accounts[a].balance = txs[nextTx - 1].balanceAfter
          /\ txs[nextTx - 1].balanceAfter = txs[nextTx - 2].balanceAfter + txs[nextTx - 1].amount
          /\ txs[nextTx - 2].balanceAfter # opening[a]

\* C21: at no time are two runs of syncAllAccounts in progress
C21_NoOverlappingRuns == sync.running <= 1

\* C25: isRunning holds exactly when an interval timer is installed in
\* syncInterval; at most one timer exists; a start while running changes
\* nothing; a start after a stop installs a timer and begins a run again
C25_StartStop ==
    /\ [](/\ sync.isRunning <=> sync.syncInterval # 0
          /\ Cardinality(sync.timers) <= 1
          /\ sync.syncInterval # 0 => sync.timers = {sync.syncInterval})
    /\ [][(last'.op = "startAutoSync" /\ sync.isRunning) => sync' = sync]_vars
    /\ [][(last'.op = "startAutoSync" /\ ~sync.isRunning) =>
              /\ sync'.isRunning /\ sync'.syncInterval \notin {0, sync.syncInterval}
              /\ sync'.started = sync.started + 1]_vars
    /\ [][last'.op = "stopAutoSync" =>
              /\ ~sync'.isRunning /\ sync'.syncInterval = 0 /\ sync'.timers = {}
              /\ sync'.started = sync.started]_vars

\* started, stopped and started again: the second timer is the only one
C25_Witness ==
    /\ last.op = "startAutoSync"
    /\ sync.isRunning /\ sync.syncInterval = 2 /\ sync.timers = {2}
    /\ sync.started >= 2

\* C29: every imported transaction has a category of the enum that agrees with
\* its stored type: with no keyword in the description an expense has
\* other-expense and an income other-income
C29_ImportedCategoryAgrees ==
    \A t \in DOMAIN txs :
        txs[t].plaidTransactionId # NoPlaid =>
            /\ txs[t].category \in CategoryEnum
            /\ (\A i \in DOMAIN CategoryRules :
                    CategoryRules[i].keywords \cap txs[t].description = {}) =>
                  /\ txs[t].type = "expense" => txs[t].category = "other-expense"
                  /\ txs[t].type = "income" => txs[t].category = "other-income"

\* C22: whatever the interleaving of bank-sync runs that receive the same
\* external id, at most one stored transaction carries it
C22_OnePerPlaidId ==
    \A p \in PlaidTxIds : Cardinality(WithPlaidId(p)) <= 1

\* C23: a successful PUT or DELETE /transactions/:id on T writes T's record
\* and the balance of T's account and nothing else: every other transaction
\* keeps its record (amount and balanceAfter included, also when it is later
\* than T), every other account its document
C23_UpdateDeleteTouchOnlyTarget ==
    [][(/\ last'.op \in {"PUT /transactions", "DELETE /transactions"}
        /\ last'.status = 200) =>
          LET t == last'.target
              a == txs[t].accountId
          IN /\ DOMAIN txs' = IF last'.op = "PUT /transactions"
                              THEN DOMAIN txs ELSE DOMAIN txs \ {t}
             /\ \A s \in DOMAIN txs \ {t} : txs'[s] = txs[s]
             /\ DOMAIN accounts' = DOMAIN accounts
             /\ \A b \in DOMAIN accounts \ {a} : accounts'[b] = accounts[b]
             /\ [accounts'[a] EXCEPT !.balance = accounts[a].balance] = accounts[a]]_vars

\* an earlier transaction was deleted and the balance moved, while a later
\* one of the account is still stored with the snapshot it had
C23_Witness ==
    /\ last.op = "DELETE /transactions" /\ last.status = 200
    /\ \E s \in DOMAIN txs :
          /\ s > last.target
          /\ txs[s].accountId \in DOMAIN accounts
          /\ accounts[txs[s].accountId].balance # txs[s].balanceAfter

\* C24: POST /transactions writes the transaction record before the account
\* balance; when the account write fails, or the handler stops between the two
\* writes, the record stays with balanceAfter = newBalance, the account keeps
\* its balance, the answer is 500 and the request writes nothing afterwards
C24_CreateFailsBetweenWrites ==
    /\ [][\A r \in ReqIds :
            (/\ reqs[r].op = "POST /transactions"
             /\ reqs[r].pc = "found" /\ reqs'[r].pc = "transactionSaved") =>
               /\ accounts' = accounts
               /\ reqs'[r].target \in DOMAIN txs' \ DOMAIN txs
               /\ txs'[reqs'[r].target].balanceAfter = reqs[r].newBalance]_vars
    /\ [][\A r \in ReqIds :
            (/\ reqs[r].op = "POST /transactions"
             /\ reqs[r].pc = "transactionSaved" /\ reqs'[r].pc = "failed") =>
               /\ last'.op = "POST /transactions" /\ last'.status = 500
               /\ accounts' = accounts
               /\ txs' = txs
               /\ reqs[r].target \in DOMAIN txs => 
                     txs'[reqs[r].target].balanceAfter = reqs[r].newBalance]_vars
    /\ [][\A r \in ReqIds : reqs[r].pc = "failed" => reqs'[r] = reqs[r]]_vars
    /\ [][\A r \in ReqIds :
            (reqs[r].op = "POST /transactions" /\ reqs[r].pc # "transactionSaved") =>
               (accounts' = accounts \/ reqs'[r] = reqs[r])]_vars

\* a create failed after its record was saved: the record is stored with the
\* new balance, the account still has the balance the handler had read
C24_Witness ==
    \E r \in ReqIds :
        /\ reqs[r].op = "POST /transactions" /\ reqs[r].pc = "failed"
        /\ last.op = "POST /transactions" /\ last.status = 500
        /\ reqs[r].target \in DOMAIN txs
        /\ txs[reqs[r].target].balanceAfter = reqs[r].newBalance
        /\ accounts[reqs[r].account].balance = reqs[r].read
        /\ reqs[r].read # reqs[r].newBalance

\* C26: every stored transaction has the userId of its account; no update
\* changes a transaction's accountId or userId; a create, update or delete of
\* a transaction by one user leaves every other user's account as it was
C26_OwnerOfTransactionIsOwnerOfAccount ==
    /\ [](\A t \in DOMAIN txs :
            txs[t].accountId \in DOMAIN accounts =>
                txs[t].userId = accounts[txs[t].accountId].userId)
    /\ [][last'.op = "PUT /transactions" =>
            \A t \in DOMAIN txs :
                /\ t \in DOMAIN txs'
                /\ txs'[t].accountId = txs[t].accountId
                /\ txs'[t].userId = txs[t].userId]_vars
    /\ [][last'.op \in {"POST /transactions", "PUT /transactions",
                         "DELETE /transactions"} =>
            \A b \in DOMAIN accounts :
                accounts[b].userId # last'.user =>
                    b \in DOMAIN accounts' /\ accounts'[b] = accounts[b]]_vars

\* the second user imported a transaction into their own linked account and
\* then changed it: record and account carry that user's id
C26_Witness ==
    /\ last.op = "PUT /transactions" /\ last.status = 200 /\ last.user = "u2"
    /\ txs[last.target].plaidTransactionId # NoPlaid
    /\ txs[last.target].userId = "u2"
    /\ accounts[txs[last.target].accountId].userId = "u2"

\* C28: once an account is soft-deleted, no create, update or delete of a
\* transaction changes its balance or the set of its transactions
C28_SoftDeletedAccountIsFrozen ==
    [][last'.op \in {"POST /transactions", "PUT /transactions", "DELETE /transactions"} =>
          \A a \in DOMAIN accounts :
              ~accounts[a].isActive =>
                  /\ a \in DOMAIN accounts'
                  /\ accounts'[a].balance = accounts[a].balance
                  /\ {t \in DOMAIN txs' : txs'[t].accountId = a} = TxOfAccount(a)]_vars

\* C27: in every reachable state, also when DELETE /accounts/:id and POST
\* /transactions on the same account interleave, the accountId of every stored
\* transaction is the id of an existing account
C27_AccountOfTransactionExists ==
    \A t \in DOMAIN txs : txs[t].accountId \in DOMAIN accounts

\* C30: when saving the transaction record fails in a create or an update
\* (validation, for one), the request is answered with an error and nothing
\* it did has changed the stored transactions or accounts: up to that save
\* the handler has written nothing, and the failure writes nothing
C30_FailedSaveChangesNothing ==
    /\ [][\A r \in ReqIds :
            (/\ reqs[r].pc # "found" /\ reqs'[r].pc = "found"
             /\ reqs'[r].op \in {"POST /transactions", "PUT /transactions"}) =>
               txs' = txs /\ accounts' = accounts]_vars
    /\ [][\A r \in ReqIds :
            (/\ reqs[r].op \in {"POST /transactions", "PUT /transactions"}
             /\ reqs[r].pc = "found" /\ reqs'[r].pc = "failed") =>
               /\ last'.op = reqs[r].op /\ last'.status = 500
               /\ "error" \in last'.body
               /\ txs' = txs /\ accounts' = accounts /\ nextTx' = nextTx]_vars
    /\ [][\A r \in ReqIds :
            (reqs[r].pc = "failed" /\ reqs[r].op = "PUT /transactions") =>
                reqs'[r] = reqs[r]]_vars

\* an update whose transaction.save() was rejected: the record still has the
\* snapshot the handler read, not the one it computed, and the account's
\* balance has not moved
C30_Witness ==
    \E r \in ReqIds :
        /\ reqs[r].op = "PUT /transactions" /\ reqs[r].pc = "failed"
        /\ last.op = "PUT /transactions" /\ last.status = 500
        /\ reqs[r].target \in DOMAIN txs
        /\ reqs[r].newBalance # reqs[r].read
        /\ txs[reqs[r].target].balanceAfter = reqs[r].read
        /\ accounts[reqs[r].account].balance = reqs[r].read
====
